---------------------------- MODULE Spec2Model ----------------------------
(***************************************************************************)
(* Driver handles of the node agent: the background monitor (run), the     *)
(* kill escalation (Kill) and the completion channel of one task handle,   *)
(* for the four handle implementations of the repository:                  *)
(*   "exec"   execHandle  src/client/driver/exec.go                        *)
(*   "java"   javaHandle  src/unnamed/part_001                             *)
(*   "xen"    xenHandle   src/client/driver/xen.go                         *)
(*   "xenPoc" xenHandle   src/unnamed/part_000 (panics on a failed read)   *)
(* Each goroutine is a process with a position; a Go channel is a buffer   *)
(* and a closed flag; time is a Tick that advances every running timer.    *)
(***************************************************************************)
EXTENDS Naturals, Sequences, FiniteSets

VARIABLES
    drv,         \* the driver's side: the last driver call, the handle it gave
    backend,     \* which handle implementation this handle is
    procKind,    \* "polite": may exit at any time; "stubborn": exits only when killed
    proc,        \* the workload (process or domain): "running" | "exited"
    exitRes,     \* what the executor's Wait() reports once the process has exited
    mpc,         \* monitor goroutine: "wait" | "sleep" | "run" | "done" | "panic"
    mi,          \* index of the next statement of run() after the wait/poll loop
    sleepT,      \* time slept so far in the polling monitor's time.Sleep
    lastRead,    \* outcome of the polling monitor's last registry read
    waitRes,     \* run()'s local res / err
    doneClosed,  \* doneCh is closed
    waitBuf,     \* waitCh's buffer
    waitClosed,  \* waitCh is closed
    nSent,       \* number of sends the monitor has completed on waitCh
    kill,        \* the Kill() calls, one per caller
    recvd        \* what the agent has received from WaitCh(), in order

vars == <<drv, backend, procKind, proc, exitRes, mpc, mi, sleepT, lastRead, waitRes,
          doneClosed, waitBuf, waitClosed, nSent, kill, recvd>>

\* Bounds of the model.
MaxKillers == 2
MaxRecv == 2

\* time.After(5 * time.Second) in Kill, time.Sleep(5 * time.Second) in the
\* polling run, and the capacity of waitCh.
GracePeriod == 5
PollInterval == 5
\* make(chan T) in place of make(chan T, 1).
WaitChCapUnbuffered == 1 - 1
WaitChCap == 1

Backends == {"exec", "java", "xen", "xenPoc"}
ExecutorBacked == {"exec", "java"}
Polling == {"xen", "xenPoc"}
Killers == 1..MaxKillers

IdleKill == [pc |-> "idle", t |-> 0, res |-> "none", doneAtCall |-> FALSE,
             shut |-> FALSE, force |-> "none", fres |-> "none"]

Crashed == mpc = "panic"

\* No driver call recorded.
NoCall == [op |-> "none"]

\* The driver's side once Start (or Open) has returned a handle: one
\* `go h.run()` spawned, Wait() not yet returned, Update and ID never
\* called.
LiveDrv == [call |-> NoCall, handle |-> TRUE, monitors |-> 1, waits |-> 0,
            upd |-> "none", updAt |-> "none", id |-> "none"]

\* The callers of Kill run the same code and differ in nothing else, so
\* the calls are numbered in the order in which they are made.
NextCaller(k) == IF k = 1 THEN TRUE ELSE kill[k - 1].pc # "idle"

--------------------------------------------------------------------------
\* The state right after Start (or Open) has returned the handle: both
\* channels made and open, `go h.run()` spawned, the workload running.
Init ==
    /\ drv = LiveDrv
    /\ backend \in Backends
    /\ procKind \in {"polite", "stubborn"}
    /\ proc = "running"
    /\ exitRes = "none"
    /\ mpc = IF backend \in Polling THEN "sleep" ELSE "wait"
    /\ mi = 0
    /\ sleepT = 0
    /\ lastRead = "none"
    /\ waitRes = "none"
    /\ doneClosed = FALSE
    /\ waitBuf = <<>>
    /\ waitClosed = FALSE
    /\ nSent = 0
    /\ kill = [k \in Killers |-> IdleKill]
    /\ recvd = <<>>

--------------------------------------------------------------------------
\* The workload and the external commands.

\* A process that exits by itself, with exit code 0 or not.
ProcExit ==
    /\ proc = "running"
    /\ procKind = "polite"
    /\ \E r \in {"exit0", "exit1"} : exitRes' = r
    /\ proc' = "exited"
    /\ UNCHANGED <<drv, backend, procKind, mpc, mi, sleepT, lastRead, waitRes,
                   doneClosed, waitBuf, waitClosed, nSent, kill, recvd>>

\* Executor.ForceStop: unconditional termination; it reports why it could
\* not, and a process that is already gone is not an error.
ForceStopOutcomes(p) == IF p = "exited" THEN {"ok"} ELSE {"ok", "err"}

\* `xl destroy <domain>`: fails for a domain that no longer exists.
XlDestroyOutcomes(p) == IF p = "exited" THEN {"err"} ELSE {"ok", "err"}

\* The workload after a termination with outcome o.
ProcAfterStop(o) == IF o = "ok" THEN "exited" ELSE proc
ResAfterStop(o) == IF o = "ok" /\ proc = "running" THEN "killed" ELSE exitRes

\* The names `xenstore-ls /local/domain -f` lists: every running domain.
OwnDomain == "nomad-alloc"
OtherDomain == "Domain-0"
RegistryNames(p) == IF p = "running" THEN {OwnDomain, OtherDomain} ELSE {OtherDomain}

--------------------------------------------------------------------------
\* Channels, with Go's semantics: a send blocks while the buffer is full,
\* a send on or a close of a closed channel panics.

\* The Wait() error of the managed-runtime executor: nil for a clean exit.
IsNilErr(res) == res = "exit0"

\* The statements each run() executes once its wait or poll loop is over.
ExecRunResultFirst == <<"send", "closeWait", "closeDone">>
ExecRun == <<"closeDone", "send", "closeWait">>
JavaRun(res) == IF IsNilErr(res) THEN <<"closeDone", "closeWait">>
                ELSE <<"closeDone", "send", "closeWait">>
\* A run() that closes the completion channel a second time.
XenRunClosesTwice == <<"closeDone", "closeWait", "closeWait">>
XenRun == <<"closeDone", "closeWait">>
XenPocRun == <<"closeDone", "closeWait">>

RunProgram(b, res) ==
    CASE b = "exec" -> ExecRun
      [] b = "java" -> JavaRun(res)
      [] b = "xen" -> XenRun
      [] OTHER -> XenPocRun

Stmt == IF mpc = "run" THEN RunProgram(backend, waitRes)[mi] ELSE "none"

\* The monitor's position after the statement at mi.
AfterStmt ==
    /\ mi' = mi + 1
    /\ mpc' = IF mi = Len(RunProgram(backend, waitRes)) THEN "done" ELSE "run"

--------------------------------------------------------------------------
\* The monitor goroutine.

\* res := h.cmd.Wait(): returns once the process has exited.
MonitorWait ==
    /\ mpc = "wait"
    /\ proc = "exited"
    /\ waitRes' = exitRes
    /\ mpc' = "run"
    /\ mi' = 1
    /\ drv' = [drv EXCEPT !.waits = @ + 1]
    /\ UNCHANGED <<backend, procKind, proc, exitRes, sleepT, lastRead,
                   doneClosed, waitBuf, waitClosed, nSent, kill, recvd>>

\* isDomainActive: a failed read counts as active.
IsDomainActive(readOk, names) ==
    IF ~readOk THEN "active"
    ELSE IF OwnDomain \in names THEN "active" ELSE "gone"

\* isDomainActive of the earlier hypervisor handle: a failed read panics.
IsDomainActivePoc(readOk, names) ==
    IF ~readOk THEN "panic"
    ELSE IF OwnDomain \in names THEN "active" ELSE "gone"

\* One turn of the polling loop, once the sleep is over.
MonitorPoll ==
    /\ mpc = "sleep"
    /\ sleepT = PollInterval
    /\ \E readOk \in BOOLEAN :
         LET a == IF backend = "xen"
                  THEN IsDomainActive(readOk, RegistryNames(proc))
                  ELSE IsDomainActivePoc(readOk, RegistryNames(proc))
         IN /\ lastRead' = IF ~readOk THEN "failed"
                           ELSE IF a = "active" THEN "listed" ELSE "absent"
            /\ mpc' = CASE a = "active" -> "sleep"
                        [] a = "gone" -> "run"
                        [] OTHER -> "panic"
            /\ mi' = IF a = "gone" THEN 1 ELSE mi
    /\ sleepT' = 0
    /\ UNCHANGED <<drv, backend, procKind, proc, exitRes, waitRes,
                   doneClosed, waitBuf, waitClosed, nSent, kill, recvd>>

\* close(h.doneCh)
MonitorCloseDone ==
    /\ Stmt = "closeDone"
    /\ IF doneClosed
       THEN mpc' = "panic" /\ UNCHANGED <<mi, doneClosed>>
       ELSE doneClosed' = TRUE /\ AfterStmt
    /\ UNCHANGED <<drv, backend, procKind, proc, exitRes, sleepT, lastRead, waitRes,
                   waitBuf, waitClosed, nSent, kill, recvd>>

\* h.waitCh <- res
MonitorSend ==
    /\ Stmt = "send"
    /\ waitClosed \/ Len(waitBuf) < WaitChCap
    /\ IF waitClosed
       THEN mpc' = "panic" /\ UNCHANGED <<mi, waitBuf, nSent>>
       ELSE /\ waitBuf' = Append(waitBuf, waitRes)
            /\ nSent' = nSent + 1
            /\ AfterStmt
    /\ UNCHANGED <<drv, backend, procKind, proc, exitRes, sleepT, lastRead, waitRes,
                   doneClosed, waitClosed, kill, recvd>>

\* close(h.waitCh)
MonitorCloseWait ==
    /\ Stmt = "closeWait"
    /\ IF waitClosed
       THEN mpc' = "panic" /\ UNCHANGED <<mi, waitClosed>>
       ELSE waitClosed' = TRUE /\ AfterStmt
    /\ UNCHANGED <<drv, backend, procKind, proc, exitRes, sleepT, lastRead, waitRes,
                   doneClosed, waitBuf, nSent, kill, recvd>>

Monitor == MonitorWait \/ MonitorPoll \/ MonitorCloseDone \/ MonitorSend
           \/ MonitorCloseWait

--------------------------------------------------------------------------
\* Kill() of execHandle and javaHandle (the two are the same code).

\* h.cmd.Shutdown(): a request the process may ignore.
KillShutdown(k) ==
    /\ backend \in ExecutorBacked
    /\ drv.handle
    /\ ~Crashed
    /\ kill[k].pc = "idle"
    /\ NextCaller(k)
    /\ kill' = [kill EXCEPT ![k].pc = "select", ![k].doneAtCall = doneClosed,
                            ![k].shut = TRUE]
    /\ UNCHANGED <<drv, backend, procKind, proc, exitRes, mpc, mi, sleepT, lastRead,
                   waitRes, doneClosed, waitBuf, waitClosed, nSent, recvd>>

\* Entering the select: time.After starts the timer, and a doneCh that is
\* already closed is taken at once (`return nil`); otherwise the call parks.
KillSelect(k) ==
    /\ ~Crashed
    /\ kill[k].pc = "select"
    /\ kill' = IF doneClosed
               THEN [kill EXCEPT ![k].pc = "returned", ![k].res = "nil"]
               ELSE [kill EXCEPT ![k].pc = "parked", ![k].t = 0]
    /\ UNCHANGED <<drv, backend, procKind, proc, exitRes, mpc, mi, sleepT, lastRead,
                   waitRes, doneClosed, waitBuf, waitClosed, nSent, recvd>>

\* A Kill that learns of the exit by receiving from waitCh.
KillWakeDoneConsuming(k) ==
    /\ ~Crashed
    /\ kill[k].pc = "parked"
    /\ Len(waitBuf) > 0
    /\ kill' = [kill EXCEPT ![k].pc = "returned", ![k].res = "nil", ![k].t = 0]
    /\ waitBuf' = Tail(waitBuf)
    /\ UNCHANGED <<drv, backend, procKind, proc, exitRes, mpc, mi, sleepT, lastRead,
                   waitRes, doneClosed, waitClosed, nSent, recvd>>

\* case <-h.doneCh: return nil. The timer is dropped with the select.
KillWakeDone(k) ==
    /\ ~Crashed
    /\ kill[k].pc = "parked"
    /\ doneClosed
    /\ kill' = [kill EXCEPT ![k].pc = "returned", ![k].res = "nil", ![k].t = 0]
    /\ UNCHANGED <<drv, backend, procKind, proc, exitRes, mpc, mi, sleepT, lastRead,
                   waitRes, doneClosed, waitBuf, waitClosed, nSent, recvd>>

\* A select that has no timer case.
KillWakeTimerNever(k) == FALSE /\ UNCHANGED vars

\* case <-time.After(5 * time.Second): the timer case is chosen.
KillWakeTimer(k) ==
    /\ ~Crashed
    /\ kill[k].pc = "parked"
    /\ kill[k].t = GracePeriod
    /\ kill' = [kill EXCEPT ![k].pc = "timedOut"]
    /\ UNCHANGED <<drv, backend, procKind, proc, exitRes, mpc, mi, sleepT, lastRead,
                   waitRes, doneClosed, waitBuf, waitClosed, nSent, recvd>>

\* return h.cmd.ForceStop()
KillForceStop(k) ==
    /\ ~Crashed
    /\ kill[k].pc = "timedOut"
    /\ \E o \in ForceStopOutcomes(proc) :
         /\ kill' = [kill EXCEPT ![k].pc = "returned",
                                 ![k].res = IF o = "ok" THEN "nil" ELSE "err",
                                 ![k].fres = o,
                                 ![k].force = IF doneClosed THEN "afterDone"
                                              ELSE "live"]
         /\ proc' = ProcAfterStop(o)
         /\ exitRes' = ResAfterStop(o)
    /\ UNCHANGED <<drv, backend, procKind, mpc, mi, sleepT, lastRead,
                   waitRes, doneClosed, waitBuf, waitClosed, nSent, recvd>>

--------------------------------------------------------------------------
\* Kill() of xenHandle, the same in both versions of the hypervisor handle
\* (the later one also clears the instance's keys in the metadata store).

\* killCmd.Run(): `xl destroy`, whose error is dropped.
XenKillDestroy(k) ==
    /\ backend \in Polling
    /\ drv.handle
    /\ ~Crashed
    /\ kill[k].pc = "idle"
    /\ NextCaller(k)
    /\ \E o \in XlDestroyOutcomes(proc) :
         /\ kill' = [kill EXCEPT ![k].pc = "destroyed",
                                 ![k].doneAtCall = doneClosed,
                                 ![k].fres = o,
                                 ![k].force = IF doneClosed THEN "afterDone"
                                              ELSE "live"]
         /\ proc' = ProcAfterStop(o)
         /\ exitRes' = ResAfterStop(o)
    /\ UNCHANGED <<drv, backend, procKind, mpc, mi, sleepT, lastRead,
                   waitRes, doneClosed, waitBuf, waitClosed, nSent, recvd>>

\* return nil
XenKillReturn(k) ==
    /\ ~Crashed
    /\ kill[k].pc = "destroyed"
    /\ kill' = [kill EXCEPT ![k].pc = "returned", ![k].res = "nil"]
    /\ UNCHANGED <<drv, backend, procKind, proc, exitRes, mpc, mi, sleepT, lastRead,
                   waitRes, doneClosed, waitBuf, waitClosed, nSent, recvd>>

\* The steps of a call that is under way.
KillStep(k) == KillSelect(k) \/ KillWakeDone(k) \/ KillWakeTimer(k)
               \/ KillForceStop(k) \/ XenKillReturn(k)

--------------------------------------------------------------------------
\* The agent's receive from WaitCh(): a buffered value, or the zero value
\* of a closed and drained channel.
Recv ==
    /\ ~Crashed
    /\ Len(recvd) < MaxRecv
    /\ Len(waitBuf) > 0 \/ waitClosed
    /\ IF Len(waitBuf) > 0
       THEN /\ recvd' = Append(recvd, Head(waitBuf))
            /\ waitBuf' = Tail(waitBuf)
       ELSE /\ recvd' = Append(recvd, "zero")
            /\ UNCHANGED waitBuf
    /\ UNCHANGED <<drv, backend, procKind, proc, exitRes, mpc, mi, sleepT, lastRead,
                   waitRes, doneClosed, waitClosed, nSent, kill>>

\* One unit of time passes for every running timer: the grace timer of a
\* parked Kill, the duration of a hypervisor Kill, the monitor's sleep.
Timed(k) == kill[k].pc \in {"parked", "destroyed"} /\ kill[k].t < GracePeriod
Sleeping == mpc = "sleep" /\ sleepT < PollInterval

Tick ==
    /\ Sleeping \/ \E k \in Killers : Timed(k)
    /\ kill' = [k \in Killers |->
                  IF Timed(k) THEN [kill[k] EXCEPT !.t = @ + 1] ELSE kill[k]]
    /\ sleepT' = IF Sleeping THEN sleepT + 1 ELSE sleepT
    /\ UNCHANGED <<drv, backend, procKind, proc, exitRes, mpc, mi, lastRead,
                   waitRes, doneClosed, waitBuf, waitClosed, nSent, recvd>>

--------------------------------------------------------------------------
Next ==
    \/ ProcExit
    \/ MonitorWait
    \/ MonitorPoll
    \/ MonitorCloseDone
    \/ MonitorSend
    \/ MonitorCloseWait
    \/ \E k \in Killers : KillShutdown(k)
    \/ \E k \in Killers : KillSelect(k)
    \/ \E k \in Killers : KillWakeDone(k)
    \/ \E k \in Killers : KillWakeTimer(k)
    \/ \E k \in Killers : KillForceStop(k)
    \/ \E k \in Killers : XenKillDestroy(k)
    \/ \E k \in Killers : XenKillReturn(k)
    \/ Recv
    \/ Tick

Spec == Init /\ [][Next]_vars

\* The executor-backed handles alone: execHandle and javaHandle.
InitExecutor == Init /\ backend \in ExecutorBacked

NextExecutor ==
    \/ ProcExit
    \/ MonitorWait
    \/ MonitorCloseDone
    \/ MonitorSend
    \/ MonitorCloseWait
    \/ \E k \in Killers : KillShutdown(k)
    \/ \E k \in Killers : KillSelect(k)
    \/ \E k \in Killers : KillWakeDone(k)
    \/ \E k \in Killers : KillWakeTimer(k)
    \/ \E k \in Killers : KillForceStop(k)
    \/ Recv
    \/ Tick

\* Goroutines that can run are scheduled and time passes. Nothing obliges
\* the process to exit, a caller to call Kill, or the agent to receive.
FairSpec ==
    /\ Spec
    /\ WF_vars(Monitor)
    /\ WF_vars(Tick)
    /\ \A k \in Killers : WF_vars(KillStep(k))

FairExecutorSpec ==
    /\ InitExecutor /\ [][NextExecutor]_vars
    /\ WF_vars(Monitor)
    /\ WF_vars(Tick)
    /\ \A k \in Killers : WF_vars(KillStep(k))

--------------------------------------------------------------------------
\* The drivers: Start, Open and Fingerprint, each a sequential function of
\* the task and of what the host answers.

\* task.Config: for each key whether it is absent, present and empty, or
\* present with a value. "other" is a key no driver reads.
ConfigKeys == {"command", "artifact_source", "base_image_path", "other"}
Configs == [ConfigKeys -> {"absent", "empty", "set"}]

\* The steps of Start that depend on the host, in no particular order:
\* failAt names the one that fails when it is attempted, if any.
HostSteps == {"taskDir", "fetch", "limit", "bind", "launch",
              "template", "image", "create", "render"}
FailAts == HostSteps \cup {"none"}

\* Tasks: the resources, metadata and environment of
\* TestDriver_TaskEnvironmentVariables, and a task with a single reserved
\* and a single dynamic port and nothing else.
Tasks ==
    { [cpu |-> 1000, mem |-> 500, ip |-> "1.2.3.4",
       reserved |-> {<<"one", 80>>, <<"two", 443>>},
       dynamic |-> {<<"admin", 8081>>},
       meta |-> {<<"chocolate", "cake">>, <<"strawberry", "icecream">>},
       env |-> {<<"HELLO", "world">>, <<"lorem", "ipsum">>}],
      [cpu |-> 250, mem |-> 256, ip |-> "0.0.0.0",
       reserved |-> {<<"main", 12345>>},
       dynamic |-> {<<"HTTP", 0>>},
       meta |-> {},
       env |-> {}] }

\* strings.ToUpper on the metadata keys in use.
ToUpper(k) ==
    CASE k = "chocolate" -> "CHOCOLATE"
      [] k = "strawberry" -> "STRAWBERRY"
      [] OTHER -> k

\* strconv.Itoa on the numbers in use.
Itoa(n) ==
    CASE n = 0 -> "0"
      [] n = 80 -> "80"
      [] n = 250 -> "250"
      [] n = 256 -> "256"
      [] n = 443 -> "443"
      [] n = 500 -> "500"
      [] n = 1000 -> "1000"
      [] n = 8081 -> "8081"
      [] n = 12345 -> "12345"

\* An environment entry: its name, as the parts it is put together from,
\* and its value.
EnvVar(name, value) == [name |-> name, value |-> value]

\* TaskEnvironmentVariables(ctx, task), as the expected map of
\* TestDriver_TaskEnvironmentVariables spells it: NOMAD_CPU_LIMIT,
\* NOMAD_MEMORY_LIMIT, NOMAD_IP, NOMAD_PORT_<label> for every reserved and
\* dynamic port, NOMAD_META_<KEY> for every metadata item, and task.Env
\* under its own names.
TaskEnvironmentVariables(task) ==
    {EnvVar(<<"NOMAD_", "CPU_LIMIT">>, Itoa(task.cpu)),
     EnvVar(<<"NOMAD_", "MEMORY_LIMIT">>, Itoa(task.mem)),
     EnvVar(<<"NOMAD_", "IP">>, task.ip)}
    \cup {EnvVar(<<"NOMAD_", "PORT_", p[1]>>, Itoa(p[2])) :
              p \in task.reserved \cup task.dynamic}
    \cup {EnvVar(<<"NOMAD_", "META_", ToUpper(m[1])>>, m[2]) : m \in task.meta}
    \cup {EnvVar(<<e[1]>>, e[2]) : e \in task.env}

\* What a Start did and returned: the error (and the key it names), whether
\* the artifact fetcher was invoked, whether a file was created, whether the
\* process or VM is running, whether a handle was returned, how many
\* monitors were spawned, and the environment handed to the process.
StartOut(err, key, fetched, files, launched, handle, monitors, env) ==
    [err |-> err, key |-> key, fetched |-> fetched, files |-> files,
     launched |-> launched, handle |-> handle, monitors |-> monitors,
     env |-> env]

StartFailed(err, key, fetched, files) ==
    StartOut(err, key, fetched, files, FALSE, FALSE, 0, {})

\* A Start that launches the command without its environment.
ExecStartNoEnv(cfg, failAt, task) ==
    IF cfg["command"] # "set" \/ failAt # "none"
    THEN StartFailed("failed", "", FALSE, FALSE)
    ELSE StartOut("none", "", cfg["artifact_source"] = "set", FALSE, TRUE,
                  TRUE, 1, {})

\* ExecDriver.Start
ExecStart(cfg, failAt, task) ==
    IF cfg["command"] # "set"
    THEN StartFailed("missingKey", "command", FALSE, FALSE)
    ELSE IF failAt = "taskDir"
    THEN StartFailed("noTaskDir", "", FALSE, FALSE)
    ELSE LET fetch == cfg["artifact_source"] = "set" IN
    IF fetch /\ failAt = "fetch"
    THEN StartFailed("fetch", "", TRUE, FALSE)
    ELSE IF failAt = "limit"
    THEN StartFailed("limit", "", fetch, FALSE)
    ELSE IF failAt = "bind"
    THEN StartFailed("bind", "", fetch, FALSE)
    ELSE IF failAt = "launch"
    THEN StartFailed("launch", "", fetch, FALSE)
    ELSE StartOut("none", "", fetch, FALSE, TRUE, TRUE, 1,
                  TaskEnvironmentVariables(task))

\* A Start that returns the handle without `go h.run()`.
JavaStartNoMonitor(cfg, failAt, task) ==
    StartOut("none", "", TRUE, FALSE, TRUE, TRUE, 0,
             TaskEnvironmentVariables(task))

\* JavaDriver.Start: the configuration is decoded and never checked, and
\* the artifact fetcher is invoked whatever artifact_source holds.
JavaStart(cfg, failAt, task) ==
    IF failAt = "taskDir"
    THEN StartFailed("noTaskDir", "", FALSE, FALSE)
    ELSE IF failAt = "fetch"
    THEN StartFailed("fetch", "", TRUE, FALSE)
    ELSE IF failAt = "limit"
    THEN StartFailed("limit", "", TRUE, FALSE)
    ELSE IF failAt = "bind"
    THEN StartFailed("bind", "", TRUE, FALSE)
    ELSE IF failAt = "launch"
    THEN StartFailed("launch", "", TRUE, FALSE)
    ELSE StartOut("none", "", TRUE, FALSE, TRUE, TRUE, 1,
                  TaskEnvironmentVariables(task))

\* XenDriver.Start (xen.go): the handle is built before `xl create` and
\* dropped when that fails.
XenStart(cfg, failAt, task) ==
    IF failAt = "template"
    THEN StartFailed("template", "", FALSE, FALSE)
    ELSE IF cfg["base_image_path"] # "set"
    THEN StartFailed("missingKey", "base_image_path", FALSE, FALSE)
    ELSE IF failAt = "image"
    THEN StartFailed("image", "", FALSE, FALSE)
    ELSE IF failAt = "taskDir"
    THEN StartFailed("noTaskDir", "", FALSE, TRUE)
    ELSE IF failAt = "create"
    THEN StartFailed("create", "", FALSE, TRUE)
    ELSE IF failAt = "render"
    THEN StartFailed("render", "", FALSE, TRUE)
    ELSE IF failAt = "launch"
    THEN StartFailed("launch", "", FALSE, TRUE)
    ELSE StartOut("none", "", FALSE, TRUE, TRUE, TRUE, 1, {})

\* XenDriver.Start (part_000): no key is checked and the result of
\* `xl create` is dropped.
XenPocStart(cfg, failAt, task) ==
    IF failAt = "template"
    THEN StartFailed("template", "", FALSE, FALSE)
    ELSE IF failAt = "taskDir"
    THEN StartFailed("noTaskDir", "", FALSE, FALSE)
    ELSE IF failAt = "create"
    THEN StartFailed("create", "", FALSE, FALSE)
    ELSE IF failAt = "render"
    THEN StartFailed("render", "", FALSE, TRUE)
    ELSE StartOut("none", "", FALSE, TRUE, failAt # "launch", TRUE, 1, {})

StartOf(b, cfg, failAt, task) ==
    CASE b = "exec" -> ExecStart(cfg, failAt, task)
      [] b = "java" -> JavaStart(cfg, failAt, task)
      [] b = "xen" -> XenStart(cfg, failAt, task)
      [] OTHER -> XenPocStart(cfg, failAt, task)

\* executor.OpenId(handleID): finds the process the identifier names, and
\* fails when it names no live process of this task.
OpenIdOk(idLive) == idLive

\* What an Open did and returned.
OpenOut(err, handle, monitors) ==
    [err |-> err, handle |-> handle, monitors |-> monitors, spawned |-> FALSE]

\* An Open that returns the handle whatever OpenId reported.
ExecOpenIgnoringError(idLive) == OpenOut("none", TRUE, 1)

\* ExecDriver.Open
ExecOpen(idLive) ==
    IF ~OpenIdOk(idLive) THEN OpenOut("openFailed", FALSE, 0)
    ELSE OpenOut("none", TRUE, 1)

\* JavaDriver.Open
JavaOpen(idLive) ==
    IF ~OpenIdOk(idLive) THEN OpenOut("openFailed", FALSE, 0)
    ELSE OpenOut("none", TRUE, 1)

\* XenDriver.Open, in both versions: "open not implemented".
XenOpen(idLive) == OpenOut("notImplemented", FALSE, 0)

OpenOf(b, idLive) ==
    CASE b = "exec" -> ExecOpen(idLive)
      [] b = "java" -> JavaOpen(idLive)
      [] OTHER -> XenOpen(idLive)

--------------------------------------------------------------------------
\* Fingerprint.

\* An assignment that drops every other attribute of the node.
WriteAlone(attrs, k, v) == {<<k, v>>}

\* node.Attributes: a set of <<key, value>> pairs, one pair per key; a key
\* is the tuple of the parts it is put together from.
Write(attrs, k, v) == {p \in attrs : p[1] # k} \cup {<<k, v>>}
Keys(attrs) == {p[1] : p \in attrs}
Lookup(attrs, k, default) ==
    IF k \in Keys(attrs) THEN (CHOOSE p \in attrs : p[1] = k)[2] ELSE default

\* The node before a Fingerprint: no attribute yet, or those of an earlier
\* fingerprinter (the kernel's, the CPU's); no resources yet.
NodeAttrs == {{}, {<<<<"kernel.name">>, "linux">>},
              {<<<<"kernel.name">>, "linux">>, <<<<"cpu.frequency">>, 1000>>}}
NoResources == [cpu |-> 0, mem |-> 0]

\* What a Fingerprint returned and what it left in the node; panic: it did
\* not return.
FpOut(ok, err, attrs, res, panic) ==
    [ok |-> ok, err |-> err, attrs |-> attrs, res |-> res, panic |-> panic]

Unavailable(attrs) == FpOut(FALSE, "nil", attrs, NoResources, FALSE)

\* A Fingerprint that writes its flag before it looks at the host.
ExecFingerprintFlagFirst(os, root, probe, attrs) ==
    LET a == Write(attrs, <<"driver.exec">>, "1") IN
    IF os # "linux" \/ ~root THEN Unavailable(a)
    ELSE FpOut(TRUE, "nil", a, NoResources, FALSE)

\* ExecDriver.Fingerprint: runs no probe command.
ExecFingerprint(os, root, probe, attrs) ==
    IF os # "linux" THEN Unavailable(attrs)
    ELSE IF ~root THEN Unavailable(attrs)
    ELSE FpOut(TRUE, "nil", Write(attrs, <<"driver.exec">>, "1"), NoResources,
               FALSE)

\* The output of `java -version`, as strings.Split(_, "\n") cuts it: the
\* three lines of a JVM and the empty rest after the last newline; one line
\* that is not a version; three that are not; nothing.
JavaVersionText == <<"java version \"1.6.0_36\"", "OpenJDK Runtime Environment",
                     "OpenJDK 64-Bit Server VM", "">>
JavaTexts == {<<>>, <<"garbage">>, <<"garbage", "more", "and more">>,
              JavaVersionText}
NoProbe == [ran |-> FALSE, out |-> <<>>, errOut |-> <<>>]
JavaProbes ==
    {NoProbe} \cup [ran : {TRUE}, out : {<<>>, <<"garbage">>}, errOut : JavaTexts]

\* strings.Trim(strings.TrimPrefix(line, "java version "), "\"")
TrimVersion(line) ==
    IF line = "java version \"1.6.0_36\"" THEN "1.6.0_36" ELSE line

\* JavaDriver.Fingerprint: info[1] and info[2] of the source are info[2]
\* and info[3] here, and an index past the end panics.
JavaFingerprint(os, root, probe, attrs) ==
    IF os = "linux" /\ ~root THEN Unavailable(attrs)
    ELSE IF ~probe.ran THEN Unavailable(attrs)
    ELSE LET info == IF probe.errOut # <<>> THEN probe.errOut ELSE probe.out
             a1 == Write(attrs, <<"driver.java">>, "1")
             a2 == Write(a1, <<"driver.java.", "version">>, TrimVersion(info[1]))
             a3 == Write(a2, <<"driver.java.", "runtime">>, info[2])
             a4 == Write(a3, <<"driver.java.", "vm">>, info[3])
         IN IF info = <<>> THEN Unavailable(attrs)
            ELSE IF Len(info) < 2 THEN FpOut(FALSE, "none", a2, NoResources, TRUE)
            ELSE IF Len(info) < 3 THEN FpOut(FALSE, "none", a3, NoResources, TRUE)
            ELSE FpOut(TRUE, "nil", a4, NoResources, FALSE)

\* The output of `xl info`, line by line: <<key, value>> for a line
\* reXenInfo matches, <<"junk">> for one it does not.
XenInfoFull == <<<<"xen_version", 4>>, <<"junk">>, <<"cpu_mhz", 2000>>,
                 <<"nr_cpus", 4>>, <<"total_memory", 512>>>>
XenInfoNoVersion == <<<<"junk">>, <<"nr_cpus", 4>>>>
XenInfoNoMemory == <<<<"xen_version", 4>>, <<"cpu_mhz", 2000>>>>
XenProbes ==
    {NoProbe} \cup [ran : {TRUE},
                    out : {<<>>, XenInfoNoVersion, XenInfoNoMemory, XenInfoFull},
                    errOut : {<<>>}]

\* The scanner loop: xenCfg[matches[1]] = matches[2] for every line that
\* matches.
RECURSIVE ScanXenInfo(_, _)
ScanXenInfo(lines, xenCfg) ==
    IF lines = <<>> THEN xenCfg
    ELSE ScanXenInfo(Tail(lines),
                     IF Len(Head(lines)) # 2 THEN xenCfg
                     ELSE Write(xenCfg, Head(lines)[1], Head(lines)[2]))

\* The bytes in a megabyte.
MB == 1024 * 1024

\* fingerprintDom0: a key that is missing parses as 0.
FingerprintDom0(attrs, xen) ==
    LET cpuMhz == Lookup(xen, "cpu_mhz", 0)
        numCores == Lookup(xen, "nr_cpus", 0)
        totalMemoryMB == Lookup(xen, "total_memory", 0)
        a1 == Write(attrs, <<"cpu.frequency">>, cpuMhz)
        a2 == Write(a1, <<"cpu.numcores">>, numCores)
        a3 == Write(a2, <<"cpu.totalcompute">>, cpuMhz * numCores)
    IN [attrs |-> IF totalMemoryMB > 0
                  THEN Write(a3, <<"memory.totalbytes">>, totalMemoryMB * MB)
                  ELSE a3,
        res |-> [cpu |-> cpuMhz * numCores, mem |-> totalMemoryMB]]

\* range xenCfg: node.Attributes["driver.xen." + key] = value
RECURSIVE WriteXenKeys(_, _)
WriteXenKeys(attrs, xen) ==
    IF xen = {} THEN attrs
    ELSE LET p == CHOOSE q \in xen : TRUE IN
         WriteXenKeys(Write(attrs, <<"driver.xen.", p[1]>>, p[2]), xen \ {p})

\* XenDriver.Fingerprint, the same in xen.go and part_000.
XenFingerprint(os, root, probe, attrs) ==
    IF ~probe.ran THEN Unavailable(attrs)
    ELSE LET xenCfg == ScanXenInfo(probe.out, {}) IN
         IF "xen_version" \notin Keys(xenCfg)
         THEN FpOut(FALSE, "noVersion", attrs, NoResources, FALSE)
         ELSE LET a == WriteXenKeys(Write(attrs, <<"driver.xen">>, "1"), xenCfg)
                  d == FingerprintDom0(a, xenCfg)
              IN FpOut(TRUE, "nil", d.attrs, d.res, FALSE)

ProbesOf(b) ==
    CASE b = "exec" -> {NoProbe}
      [] b = "java" -> JavaProbes
      [] OTHER -> XenProbes

FingerprintOf(b, os, root, probe, attrs) ==
    CASE b = "exec" -> ExecFingerprint(os, root, probe, attrs)
      [] b = "java" -> JavaFingerprint(os, root, probe, attrs)
      [] OTHER -> XenFingerprint(os, root, probe, attrs)

\* The presence flag of a driver.
PresenceFlag(b) ==
    CASE b = "exec" -> <<"driver.exec">>
      [] b = "java" -> <<"driver.java">>
      [] OTHER -> <<"driver.xen">>

--------------------------------------------------------------------------
\* The driver before any call: no handle, no monitor.
IdleDrv == [call |-> NoCall, handle |-> FALSE, monitors |-> 0, waits |-> 0,
            upd |-> "none", updAt |-> "none", id |-> "none"]

\* The handle's variables while there is no handle.
NoHandle ==
    /\ procKind = "polite"
    /\ proc = "none"
    /\ exitRes = "none"
    /\ mpc = "none"
    /\ mi = 0
    /\ sleepT = 0
    /\ lastRead = "none"
    /\ waitRes = "none"
    /\ doneClosed = FALSE
    /\ waitBuf = <<>>
    /\ waitClosed = FALSE
    /\ nSent = 0
    /\ kill = [k \in Killers |-> IdleKill]
    /\ recvd = <<>>

hvars == <<backend, procKind, proc, exitRes, mpc, mi, sleepT, lastRead,
           waitRes, doneClosed, waitBuf, waitClosed, nSent, kill, recvd>>

InitDriver ==
    /\ drv = IdleDrv
    /\ backend \in Backends
    /\ NoHandle

\* One call of Start, recorded with its inputs.
StartCall ==
    /\ drv.call.op = "none"
    /\ \E cfg \in Configs, failAt \in FailAts, task \in Tasks :
         LET out == StartOf(backend, cfg, failAt, task) IN
         drv' = [drv EXCEPT !.call = [op |-> "start", cfg |-> cfg,
                                      failAt |-> failAt, task |-> task,
                                      out |-> out],
                            !.handle = out.handle,
                            !.monitors = out.monitors]
    /\ UNCHANGED hvars

\* One call of Open, with an identifier that does or does not still name a
\* live process of the task.
OpenCall ==
    /\ drv.call.op = "none"
    /\ \E idLive \in BOOLEAN :
         LET out == OpenOf(backend, idLive) IN
         drv' = [drv EXCEPT !.call = [op |-> "open", idLive |-> idLive,
                                      out |-> out],
                            !.handle = out.handle,
                            !.monitors = out.monitors]
    /\ UNCHANGED hvars

\* One call of Fingerprint on a host: its system, whether the agent is root,
\* and what the probe command does there.
FingerprintCall ==
    /\ drv.call.op = "none"
    /\ \E os \in {"linux", "darwin"}, root \in BOOLEAN,
          probe \in ProbesOf(backend), attrs \in NodeAttrs :
         drv' = [drv EXCEPT !.call =
                    [op |-> "fingerprint", os |-> os, root |-> root,
                     probe |-> probe, attrs |-> attrs,
                     out |-> FingerprintOf(backend, os, root, probe, attrs)]]
    /\ UNCHANGED hvars

NextDriver ==
    \/ StartCall
    \/ OpenCall
    \/ FingerprintCall

DriverSpec == InitDriver /\ [][NextDriver]_vars

--------------------------------------------------------------------------
\* A handle from the driver call that made it to its end: Start or Open,
\* then the monitor, Kill, Update and ID in any interleaving.

\* The handle's variables right after `go h.run()`: both channels made and
\* open, the monitor at its first statement.
FreshHandle(b, kind, launched, monitors) ==
    /\ procKind' = kind
    /\ proc' = IF launched THEN "running" ELSE "exited"
    /\ mpc' = IF monitors = 0 THEN "none"
              ELSE IF b \in Polling THEN "sleep" ELSE "wait"
    /\ UNCHANGED <<backend, exitRes, mi, sleepT, lastRead, waitRes, doneClosed,
                   waitBuf, waitClosed, nSent, kill, recvd>>

\* Start, with the handle it returns when it returns one.
StartHandle ==
    /\ drv.call.op = "none"
    /\ \E cfg \in Configs, failAt \in FailAts, task \in Tasks,
          kind \in {"polite", "stubborn"} :
         LET out == StartOf(backend, cfg, failAt, task) IN
         /\ drv' = [drv EXCEPT !.call = [op |-> IF out.handle THEN "started"
                                                ELSE "startFailed"],
                               !.handle = out.handle,
                               !.monitors = out.monitors]
         /\ IF out.handle THEN FreshHandle(backend, kind, out.launched, out.monitors)
            ELSE UNCHANGED hvars

\* Open on the identifier of a task that is still running or is gone.
OpenHandle ==
    /\ drv.call.op = "none"
    /\ \E idLive \in BOOLEAN, kind \in {"polite", "stubborn"} :
         LET out == OpenOf(backend, idLive) IN
         /\ drv' = [drv EXCEPT !.call = [op |-> IF out.handle THEN "opened"
                                                ELSE "openFailed"],
                               !.handle = out.handle,
                               !.monitors = out.monitors]
         /\ IF out.handle THEN FreshHandle(backend, kind, TRUE, out.monitors)
            ELSE UNCHANGED hvars

\* The two states of a handle: Exited once the completion channel is closed.
HandleState == IF waitClosed THEN "Exited" ELSE "Running"

\* An Update that stops the task.
UpdateStopping ==
    /\ drv.handle
    /\ ~Crashed
    /\ drv' = [drv EXCEPT !.upd = "nil", !.updAt = HandleState]
    /\ proc' = "exited"
    /\ exitRes' = IF proc = "running" THEN "killed" ELSE exitRes
    /\ UNCHANGED <<backend, procKind, mpc, mi, sleepT, lastRead, waitRes,
                   doneClosed, waitBuf, waitClosed, nSent, kill, recvd>>

\* Update(task): "Update is not possible", return nil; the same in
\* execHandle, javaHandle and both xenHandles.
Update ==
    /\ drv.handle
    /\ ~Crashed
    /\ drv' = [drv EXCEPT !.upd = "nil", !.updAt = HandleState]
    /\ UNCHANGED hvars

\* What ID() returns: the executor's identifier (its error dropped), the
\* domain name, or, in the earlier hypervisor handle, a panic.
IDOf(b) ==
    CASE b \in ExecutorBacked -> "executorId"
      [] b = "xen" -> "domainName"
      [] OTHER -> "panic"

\* ID(): reads the identifier and changes nothing; a panic takes the whole
\* process down, monitor included.
ID ==
    /\ drv.handle
    /\ ~Crashed
    /\ drv' = [drv EXCEPT !.id = IF IDOf(backend) = "panic" THEN "panic" ELSE @]
    /\ mpc' = IF IDOf(backend) = "panic" THEN "panic" ELSE mpc
    /\ UNCHANGED <<backend, procKind, proc, exitRes, mi, sleepT, lastRead,
                   waitRes, doneClosed, waitBuf, waitClosed, nSent, kill, recvd>>

NextLife ==
    \/ StartHandle
    \/ OpenHandle
    \/ Update
    \/ ID
    \/ ProcExit
    \/ MonitorWait
    \/ MonitorPoll
    \/ MonitorCloseDone
    \/ MonitorSend
    \/ MonitorCloseWait
    \/ \E k \in Killers : KillShutdown(k)
    \/ \E k \in Killers : KillSelect(k)
    \/ \E k \in Killers : KillWakeDone(k)
    \/ \E k \in Killers : KillWakeTimer(k)
    \/ \E k \in Killers : KillForceStop(k)
    \/ \E k \in Killers : XenKillDestroy(k)
    \/ \E k \in Killers : XenKillReturn(k)
    \/ Recv
    \/ Tick

LifeSpec == InitDriver /\ [][NextLife]_vars

--------------------------------------------------------------------------
\* Properties.

Returned(k) == kill[k].pc = "returned"
OnlyCall(k) == \A j \in Killers \ {k} : kill[j].pc = "idle"

\* C1: exactly-once completion. On every backend, a closed completion
\* channel has been written exactly once, and of the agent's receives the
\* first, and only the first, yields a WaitResult.
C1_ExactlyOneResult ==
    /\ waitClosed => nSent = 1
    /\ \A i \in 1..Len(recvd) : (recvd[i] # "zero") <=> (i = 1)

\* C2: done-before-result ordering. Whenever the completion channel is
\* closed, holds the result or has been written, the done signal is closed.
C2_DoneBeforeResult ==
    (waitClosed \/ Len(waitBuf) > 0 \/ nSent > 0) => doneClosed

\* The monitor has published and closed while one Kill is parked in its
\* select and another has not yet entered it.
C2_Witness ==
    /\ waitClosed /\ nSent = 1 /\ doneClosed
    /\ \E k \in Killers : kill[k].pc = "parked"
    /\ \E k \in Killers : kill[k].pc = "select"

\* C3: no Kill of an executor-backed handle invokes ForceStop once the
\* monitor has closed the done signal.
C3_NoForceStopAfterDone ==
    backend \in ExecutorBacked => \A k \in Killers : kill[k].force # "afterDone"

\* C4: a Kill called when the done signal is already closed returns success
\* and issues neither ForceStop nor the backend's unconditional destroy.
C4_KillAfterExitIsNoop ==
    \A k \in Killers :
        kill[k].doneAtCall => kill[k].force = "none" /\ kill[k].res # "err"

\* C5: for a task that exits only when killed, a Kill (the only one called)
\* that has returned did so after the whole grace period, having issued the
\* forced termination, and with success if that succeeded.
C5_KillEscalation ==
    procKind = "stubborn" =>
        \A k \in Killers :
            Returned(k) /\ OnlyCall(k) =>
                /\ kill[k].t = GracePeriod
                /\ kill[k].force # "none"
                /\ kill[k].fres = "ok" => kill[k].res = "nil"

\* C6: on every backend a Kill that returned without a forced termination
\* returned success, and one that issued it returned exactly its result.
C6_KillResult ==
    \A k \in Killers :
        Returned(k) =>
            kill[k].res = IF kill[k].force = "none" \/ kill[k].fres = "ok"
                          THEN "nil" ELSE "err"

\* C7: on an executor-backed handle every Kill that is called returns,
\* however the calls overlap each other and the monitor, and nothing panics.
C7_KillReturns ==
    /\ [](backend \in ExecutorBacked => ~Crashed)
    /\ \A k \in Killers :
         (backend \in ExecutorBacked /\ kill[k].pc # "idle") ~> Returned(k)

\* Two overlapping calls have returned, one through the timer and ForceStop
\* on a process that never exited by itself, the other through the done
\* signal.
C7_Witness ==
    /\ backend \in ExecutorBacked
    /\ procKind = "stubborn"
    /\ \E k \in Killers : Returned(k) /\ kill[k].force # "none"
    /\ \E k \in Killers : Returned(k) /\ kill[k].force = "none"
                          /\ ~kill[k].doneAtCall

\* C8: on an executor-backed handle the completion channel is written at
\* most once, and once Wait() has returned the monitor closes the channel
\* and ends, whether or not the agent ever receives.
C8_MonitorPublishesAndEnds ==
    /\ [](backend \in ExecutorBacked => nSent <= 1)
    /\ (backend \in ExecutorBacked /\ mpc = "run")
           ~> (mpc = "done" /\ waitClosed)

\* The monitor has ended and closed the channel after Wait() reported a
\* failure, the result still in the buffer and nothing received.
C8_Witness ==
    /\ backend \in ExecutorBacked
    /\ mpc = "done" /\ waitClosed
    /\ waitRes = "exit1"
    /\ Len(waitBuf) = 1 /\ recvd = <<>>

\* C9: the monitor never panics, and once the workload has stopped it
\* closes the done signal and the completion channel, on every backend and
\* whatever the registry reads report.
C9_MonitorConverges ==
    /\ [](~Crashed)
    /\ (proc = "exited") ~> (doneClosed /\ waitClosed)

\* C10: the polling monitor closes its signals only after a registry read
\* that succeeded and did not list the domain, and after a failed read it
\* is back in its sleep with both signals open.
C10_PollingNeverFalselyDead ==
    backend \in Polling =>
        /\ doneClosed \/ waitClosed => lastRead = "absent"
        /\ lastRead = "failed" => ~doneClosed /\ ~waitClosed /\ mpc = "sleep"

\* The last driver call, when it is a Start.
IsStart == drv.call.op = "start"

\* C11: Start is all-or-nothing. A Start that returns an error returns no
\* handle, leaves no process or VM running and starts no monitor; a handle
\* is returned only with the process or VM launched and no error; and a
\* Start whose launch fails returns an error.
C11_StartAllOrNothing ==
    IsStart =>
        LET c == drv.call IN
        /\ c.out.err # "none" =>
               ~c.out.handle /\ ~c.out.launched /\ c.out.monitors = 0
        /\ c.out.handle => c.out.launched /\ c.out.err = "none"
        /\ c.failAt = "launch" => c.out.err # "none"

IsOpen == drv.call.op = "open"

\* C12: an Open with an identifier that no longer names a live process
\* returns an error and no handle, and starts no monitor.
C12_OpenDeadIdentifier ==
    IsOpen /\ ~drv.call.idLive =>
        /\ drv.call.out.err # "none"
        /\ ~drv.call.out.handle
        /\ drv.call.out.monitors = 0
        /\ ~drv.handle /\ drv.monitors = 0

\* An executor-backed driver has refused a dead identifier.
C12_Witness ==
    /\ IsOpen /\ ~drv.call.idLive
    /\ backend \in ExecutorBacked
    /\ drv.call.out.err = "openFailed"

\* C13: on every backend an Open with the identifier of a handle whose task
\* is still running succeeds, returns a handle with its monitor started,
\* and spawns nothing.
C13_OpenLiveIdentifier ==
    IsOpen /\ drv.call.idLive =>
        /\ drv.call.out.err = "none"
        /\ drv.call.out.handle
        /\ drv.call.out.monitors = 1
        /\ ~drv.call.out.spawned

\* C14: every handle a Start or an Open has returned has exactly one
\* monitor from the moment it is returned, whatever ID, Update and Kill
\* calls follow; and the monitor of an executor-backed handle calls Wait()
\* once: never before it waits, once from then on.
C14_OneMonitorOneWait ==
    drv.handle =>
        /\ drv.monitors = 1
        /\ mpc # "none"
        /\ backend \in ExecutorBacked =>
               /\ drv.waits <= 1
               /\ mpc = "wait" => drv.waits = 0
               /\ mpc \in {"run", "done"} => drv.waits = 1

\* A reattached handle whose monitor has ended after one Wait(), with
\* Update called and every Kill returned.
C14_Witness ==
    /\ drv.handle /\ drv.call.op = "opened"
    /\ mpc = "done" /\ drv.waits = 1 /\ drv.monitors = 1
    /\ drv.upd = "nil"
    /\ \A k \in Killers : Returned(k)

\* A panic of the monitor at a channel operation: a send on or a close of
\* a closed channel (the other panics are the failed registry read and ID).
ChannelPanic == Crashed /\ lastRead # "failed" /\ drv.id # "panic"

\* C15: single writer, single close. No send on or close of a closed
\* channel happens; every step that closes the done signal, closes the
\* completion channel or writes to it is a statement of the monitor's run()
\* and of nothing else; and a closed channel stays closed.
C15_SingleWriterSingleClose ==
    /\ [](~ChannelPanic)
    /\ [][(doneClosed' # doneClosed \/ waitClosed' # waitClosed
             \/ nSent' # nSent \/ Len(waitBuf') > Len(waitBuf))
          => /\ mpc = "run" /\ mi' = mi + 1
             /\ kill' = kill /\ drv' = drv /\ recvd' = recvd
             /\ doneClosed => doneClosed'
             /\ waitClosed => waitClosed']_vars

\* The fork-exec monitor has written once and closed both channels while
\* Kill was called before and after the close, and Update while it ran.
C15_Witness ==
    /\ backend = "exec" /\ mpc = "done"
    /\ doneClosed /\ waitClosed /\ nSent = 1
    /\ \E k \in Killers : Returned(k) /\ ~kill[k].doneAtCall
    /\ \E k \in Killers : Returned(k) /\ kill[k].doneAtCall
    /\ drv.upd = "nil" /\ drv.updAt = "Running"

\* The configuration key each driver requires.
RequiredKey(b) ==
    CASE b = "exec" -> "command"
      [] b = "java" -> "artifact_source"
      [] OTHER -> "base_image_path"

\* C16: a Start whose configuration lacks the key its driver requires, or
\* has it empty, returns an error that names the key, before any artifact
\* is fetched, any file created or anything launched; and a key no driver
\* reads never changes what Start does.
C16_MissingKeyRefused ==
    IsStart =>
        LET c == drv.call IN
        /\ c.cfg[RequiredKey(backend)] # "set" =>
               /\ c.out.err = "missingKey"
               /\ c.out.key = RequiredKey(backend)
               /\ ~c.out.fetched /\ ~c.out.files /\ ~c.out.launched
        /\ \A v \in {"absent", "empty", "set"} :
               StartOf(backend, [c.cfg EXCEPT !["other"] = v], c.failAt, c.task)
                   = c.out

IsFingerprint == drv.call.op = "fingerprint"

\* The host does not qualify, or the probe command could not be run.
HostUnavailable ==
    LET c == drv.call IN
    CASE backend = "exec" -> c.os # "linux" \/ ~c.root
      [] backend = "java" -> (c.os = "linux" /\ ~c.root) \/ ~c.probe.ran
      [] OTHER -> ~c.probe.ran

NoUsableVersion ==
    LET c == drv.call
        text == IF c.probe.errOut # <<>> THEN c.probe.errOut ELSE c.probe.out
    IN /\ c.probe.ran
       /\ IF backend = "java"
          THEN text = <<>> \/ TrimVersion(text[1]) = text[1]
          ELSE <<"xen_version">> \notin
                   {<<l[1]>> : l \in {text[i] : i \in 1..Len(text)}}

\* C18: on the probing backends, on a host that qualifies, a probe command
\* that fails gives (false, nil) and one that runs without a usable version
\* gives an error; neither writes an attribute; and whenever the presence
\* flag has been written Fingerprint returns (true, nil).
C18_MisconfiguredIsAnError ==
    IsFingerprint /\ backend # "exec"
        /\ ~(backend = "java" /\ drv.call.os = "linux" /\ ~drv.call.root) =>
        LET c == drv.call IN
        /\ ~c.probe.ran =>
               ~c.out.ok /\ c.out.err = "nil" /\ c.out.attrs = c.attrs
        /\ NoUsableVersion =>
               /\ ~c.out.panic /\ ~c.out.ok
               /\ c.out.err \notin {"nil", "none"}
               /\ c.out.attrs = c.attrs
        /\ PresenceFlag(backend) \in Keys(c.out.attrs) =>
               c.out.ok /\ c.out.err = "nil" /\ ~c.out.panic

\* A Start of an executor-backed driver that launched the process.
Launched == IsStart /\ backend \in ExecutorBacked /\ drv.call.out.launched

\* The names of an environment.
Names(env) == {e.name : e \in env}

C20_UpdateIsNoop ==
    /\ [](drv.upd \in {"none", "nil"})
    /\ [][(drv'.upd # drv.upd \/ drv'.updAt # drv.updAt)
          => /\ drv'.upd = "nil"
             /\ UNCHANGED hvars
             /\ drv' = [drv EXCEPT !.upd = "nil", !.updAt = drv'.updAt]]_vars

\* Update has returned nil on a handle that had already exited, with the
\* workload gone and the result still unread.
C20_Witness ==
    /\ drv.upd = "nil" /\ drv.updAt = "Exited"
    /\ proc = "exited" /\ mpc = "done"
    /\ recvd = <<>>

\* C21: in every Kill, on every backend, the unconditional termination
\* (ForceStop or the backend's destroy) is issued only after the graceful
\* request of the same call and only once its whole grace period has run
\* with the done signal not observed; a call that has not started has issued
\* nothing.
C21_GracefulThenForce ==
    \A k \in Killers :
        /\ kill[k].force # "none" =>
               /\ kill[k].shut
               /\ kill[k].t = GracePeriod
               /\ ~kill[k].doneAtCall
        /\ kill[k].pc = "idle" => ~kill[k].shut /\ kill[k].force = "none"
        /\ kill[k].pc \in {"select", "parked", "timedOut"} =>
               kill[k].shut /\ kill[k].force = "none"

\* C22: what the completion channel delivers is the result of the workload
\* as Wait() returned it, a clean exit included: whatever is in the channel
\* is that result, and the first value the agent receives is that result
\* and not the zero value of a channel closed without a send.
C22_DeliversWaitResult ==
    /\ \A i \in 1..Len(waitBuf) : waitBuf[i] = waitRes /\ waitBuf[i] = exitRes
    /\ Len(recvd) >= 1 => recvd[1] = exitRes

\* A step of a Kill call: some call moves on (the passing of time alone
\* leaves every call where it is).
KillMoves == \E k \in Killers : kill'[k].pc # kill[k].pc

\* C23: Kill does not consume the result. No step of a Kill receives from,
\* sends to or closes the completion channel; and a result the monitor has
\* sent is in the channel until the agent's receive takes it, as the
\* agent's first value, however many Kills were called.
C23_KillLeavesResult ==
    /\ [][KillMoves => UNCHANGED <<waitBuf, waitClosed, nSent, recvd>>]_vars
    /\ [](nSent = 1 =>
              \/ waitBuf = <<waitRes>> /\ recvd = <<>>
              \/ waitBuf = <<>> /\ Len(recvd) >= 1 /\ recvd[1] = waitRes)

\* The agent has received the result of a process that ForceStop ended,
\* after one Kill went through the timer and another found the done signal
\* already closed.
C23_Witness ==
    /\ backend \in ExecutorBacked
    /\ nSent = 1 /\ Len(recvd) >= 1 /\ recvd[1] = "killed"
    /\ \E k \in Killers : Returned(k) /\ kill[k].force # "none"
    /\ \E k \in Killers : Returned(k) /\ kill[k].doneAtCall

\* The keys of a backend's namespace: driver.<name> and driver.<name>.<fact>.
Namespace(b) ==
    CASE b = "exec" -> "driver.exec."
      [] b = "java" -> "driver.java."
      [] OTHER -> "driver.xen."

InNamespace(key, b) ==
    \/ key = PresenceFlag(b)
    \/ Len(key) = 2 /\ key[1] = Namespace(b)

\* C24: every attribute a Fingerprint has written or changed has a key of
\* its backend's namespace, and every attribute the node had before is
\* still there with its value.
C24_FingerprintNamespace ==
    IsFingerprint =>
        LET c == drv.call IN
        /\ \A p \in c.out.attrs \ c.attrs : InNamespace(p[1], backend)
        /\ c.attrs \subseteq c.out.attrs

\* The host attributes fingerprintDom0 sets in place of the default
\* fingerprinters' values.
Dom0Keys == {<<"cpu.frequency">>, <<"cpu.numcores">>, <<"cpu.totalcompute">>,
             <<"memory.totalbytes">>}

\* C24, amended: every attribute a Fingerprint has written or changed has a
\* key of its backend's namespace or, on the hypervisor backend, is one of
\* the host's CPU and memory attributes; no key the node had is gone, and
\* only those host attributes may have a new value.
C24_NamespaceOrDom0 ==
    IsFingerprint =>
        LET c == drv.call IN
        /\ \A p \in c.out.attrs \ c.attrs :
               \/ InNamespace(p[1], backend)
               \/ backend \in Polling /\ p[1] \in Dom0Keys
        /\ Keys(c.attrs) \subseteq Keys(c.out.attrs)
        /\ \A p \in c.attrs \ c.out.attrs :
               backend \in Polling /\ p[1] \in Dom0Keys

\* The hypervisor Fingerprint has written its flag and one of its facts, has
\* replaced the CPU frequency the node had and has kept the kernel's name.
C24_Witness ==
    /\ IsFingerprint /\ backend = "xen" /\ drv.call.out.ok
    /\ <<<<"cpu.frequency">>, 1000>> \in drv.call.attrs
    /\ <<<<"cpu.frequency">>, 2000>> \in drv.call.out.attrs
    /\ <<<<"driver.xen.", "nr_cpus">>, 4>> \in drv.call.out.attrs
    /\ <<<<"kernel.name">>, "linux">> \in drv.call.out.attrs

\* C25: once a Kill has returned success, having observed the done signal
\* or with its forced termination succeeded, the monitor eventually closes
\* the done signal and the completion channel.
C25_KillLeadsToExited ==
    \A k \in Killers :
        (/\ Returned(k) /\ kill[k].res = "nil"
         /\ kill[k].force = "none" \/ kill[k].fres = "ok")
            ~> (doneClosed /\ waitClosed)

==========================================================================
